---- MODULE Spec2Model ----
(***************************************************************************)
(* The four-stage research pipeline of final_production.py:                *)
(* ProductionEcosystem (orchestrator), its four agents, the research_results*)
(* table and the tasks it creates and executes.                            *)
(*                                                                         *)
(* Text is a sequence of one-character strings.  Clock values are ticks of *)
(* 1/TicksPerSecond seconds.  Scores are kept in thousandths.              *)
(*                                                                         *)
(* Spec is one process that constructs ecosystems, creates tasks and runs  *)
(* workflows step by step.  Functions calls one function of the pipeline   *)
(* on its own, on arguments drawn from wider ranges (titles, bundle sizes, *)
(* feed entries and queries, elapsed times, failing fetches and stages).   *)
(***************************************************************************)
EXTENDS Integers, Sequences, FiniteSets, TLC

\* ---------------------------------------------------------------- bounds
\* steps of the caller in one process: constructions, create_task and
\* execute_workflow calls, waits of one clock tick
MaxCalls == 4
\* failures (stage exception, print, fetch, insert, table creation) in one process
MaxFaults == 1
\* records one external source holds for one query, matching entries of one feed
MaxRecords == 1
\* clock ticks one process_task call takes
StageTicks == 1

\* words of a task title
MaxWords == 4
\* papers, news entries and repositories of a bundle handed to a scoring function
MaxPapers == 15
MaxNews == 12
MaxRepos == 8
\* the slowest stage takes 30 * MaxSlow seconds
MaxSlow == 2
\* clock ticks between process start and a generate_report call
MaxReportTick == 2
\* entries one feed shows
MaxEntries == 2

\* time.time() has sub-second resolution; int() truncates it to seconds
TicksPerSecond == 2

\* ------------------------------------------------------------------ state
VARIABLES
  now,          \* the clock, in ticks
  external,     \* the records each source holds per query, whether GOOGLE_API_KEY is set
  faults,       \* failures so far
  ecosystems,   \* the ProductionEcosystem objects: their completed_tasks (task references)
  tasks,        \* the ResearchTask objects created so far
  db,           \* the research_results table of ecosystem_data.db
  pc,           \* where the running execute_workflow is, "idle" when none runs
  workflow,     \* the running (or last) execute_workflow: ecosystem, task, workflow_start
  wf_results,   \* its local `results` dict
  contexts,     \* the context it handed to each stage, in call order
  calls,        \* the process_task and insert calls it made, in order, and whether
                \* an exception was raised inside each
  returned,     \* what the last execute_workflow returned
  runs,         \* execute_workflow calls so far
  waits,        \* clock ticks the caller waited between calls
  inserted,     \* successful inserts since the process started
  applied       \* the last call of one function on its own: its arguments and result

vars == <<now, external, faults, ecosystems, tasks, db, pc, workflow, wf_results,
          contexts, calls, returned, runs, waits, inserted, applied>>

\* ------------------------------------------------------------ sequences
Min(a, b) == IF a <= b THEN a ELSE b
Max(a, b) == IF a >= b THEN a ELSE b

\* seq[:n]
Take(seq, n) == SubSeq(seq, 1, Min(n, Len(seq)))

\* Python `sub in text`
Contains(text, sub) ==
  \E i \in 0..(Len(text) - Len(sub)) :
    \A j \in 1..Len(sub) : text[i + j] = sub[j]

UpperCase == <<"A", "B", "C", "D", "E", "F", "G", "H", "I", "J", "K", "L", "M", "N", "O", "P", "Q", "R", "S", "T", "U", "V", "W", "X", "Y", "Z">>
LowerCase == <<"a", "b", "c", "d", "e", "f", "g", "h", "i", "j", "k", "l", "m", "n", "o", "p", "q", "r", "s", "t", "u", "v", "w", "x", "y", "z">>

\* str.lower() on one character
LowerChar(c) ==
  IF \E i \in 1..Len(UpperCase) : UpperCase[i] = c
  THEN LowerCase[CHOOSE i \in 1..Len(UpperCase) : UpperCase[i] = c]
  ELSE c

\* str.lower()
Lower(text) == [i \in 1..Len(text) |-> LowerChar(text[i])]

\* str.split(): the maximal runs of non-blank characters, in order
RECURSIVE SplitFrom(_, _, _)
SplitFrom(text, i, word) ==
  IF i > Len(text)
  THEN IF word = <<>> THEN <<>> ELSE <<word>>
  ELSE IF text[i] = " "
       THEN (IF word = <<>> THEN <<>> ELSE <<word>>) \o SplitFrom(text, i + 1, <<>>)
       ELSE SplitFrom(text, i + 1, Append(word, text[i]))

Split(text) == SplitFrom(text, 1, <<>>)

\* [x for x in seq if Keep(x)]
RECURSIVE LongWords(_)
LongWords(words) ==
  IF words = <<>> THEN <<>>
  ELSE IF Len(Head(words)) > 3
       THEN <<Head(words)>> \o LongWords(Tail(words))
       ELSE LongWords(Tail(words))

\* ---------------------------------------------------- search-term rules
DomainRules ==
  << [keywords |-> << <<"h", "e", "a", "l", "t", "h", "c", "a", "r", "e">>, <<"m", "e", "d", "i", "c", "a", "l">> >>,
      terms |-> << <<"a", "r", "t", "i", "f", "i", "c", "i", "a", "l", " ", "i", "n", "t", "e", "l", "l", "i", "g", "e", "n", "c", "e", " ", "h", "e", "a", "l", "t", "h", "c", "a", "r", "e">>, <<"m", "a", "c", "h", "i", "n", "e", " ", "l", "e", "a", "r", "n", "i", "n", "g", " ", "m", "e", "d", "i", "c", "i", "n", "e">>, <<"A", "I", " ", "d", "i", "a", "g", "n", "o", "s", "i", "s">> >>],
     [keywords |-> << <<"a", "i">>, <<"a", "r", "t", "i", "f", "i", "c", "i", "a", "l", " ", "i", "n", "t", "e", "l", "l", "i", "g", "e", "n", "c", "e">> >>,
      terms |-> << <<"a", "r", "t", "i", "f", "i", "c", "i", "a", "l", " ", "i", "n", "t", "e", "l", "l", "i", "g", "e", "n", "c", "e">>, <<"m", "a", "c", "h", "i", "n", "e", " ", "l", "e", "a", "r", "n", "i", "n", "g">>, <<"d", "e", "e", "p", " ", "l", "e", "a", "r", "n", "i", "n", "g">> >>],
     [keywords |-> << <<"g", "e", "n", "e", "r", "a", "t", "i", "v", "e">>, <<"g", "p", "t">> >>,
      terms |-> << <<"g", "e", "n", "e", "r", "a", "t", "i", "v", "e", " ", "a", "i">>, <<"g", "p", "t">>, <<"t", "r", "a", "n", "s", "f", "o", "r", "m", "e", "r", " ", "m", "o", "d", "e", "l", "s">> >>],
     [keywords |-> << <<"b", "l", "o", "c", "k", "c", "h", "a", "i", "n">>, <<"c", "r", "y", "p", "t", "o">> >>,
      terms |-> << <<"b", "l", "o", "c", "k", "c", "h", "a", "i", "n", " ", "t", "e", "c", "h", "n", "o", "l", "o", "g", "y">>, <<"c", "r", "y", "p", "t", "o", "c", "u", "r", "r", "e", "n", "c", "y">>, <<"d", "e", "c", "e", "n", "t", "r", "a", "l", "i", "z", "e", "d", " ", "f", "i", "n", "a", "n", "c", "e">> >>],
     [keywords |-> << <<"s", "u", "s", "t", "a", "i", "n", "a", "b", "i", "l", "i", "t", "y">>, <<"c", "l", "i", "m", "a", "t", "e">> >>,
      terms |-> << <<"s", "u", "s", "t", "a", "i", "n", "a", "b", "i", "l", "i", "t", "y", " ", "t", "e", "c", "h", "n", "o", "l", "o", "g", "y">>, <<"c", "l", "i", "m", "a", "t", "e", " ", "c", "h", "a", "n", "g", "e", " ", "A", "I">>, <<"g", "r", "e", "e", "n", " ", "t", "e", "c", "h", "n", "o", "l", "o", "g", "y">> >>],
     [keywords |-> << <<"r", "o", "b", "o", "t", "i", "c", "s">>, <<"a", "u", "t", "o", "m", "a", "t", "i", "o", "n">> >>,
      terms |-> << <<"r", "o", "b", "o", "t", "i", "c", "s", " ", "t", "e", "c", "h", "n", "o", "l", "o", "g", "y">>, <<"a", "u", "t", "o", "m", "a", "t", "i", "o", "n", " ", "s", "y", "s", "t", "e", "m", "s">>, <<"A", "I", " ", "r", "o", "b", "o", "t", "i", "c", "s">> >>],
     [keywords |-> << <<"f", "i", "n", "a", "n", "c", "e">>, <<"i", "n", "v", "e", "s", "t", "m", "e", "n", "t">> >>,
      terms |-> << <<"f", "i", "n", "a", "n", "c", "i", "a", "l", " ", "t", "e", "c", "h", "n", "o", "l", "o", "g", "y">>, <<"i", "n", "v", "e", "s", "t", "m", "e", "n", "t", " ", "s", "t", "r", "a", "t", "e", "g", "i", "e", "s">>, <<"A", "I", " ", "i", "n", " ", "f", "i", "n", "a", "n", "c", "e">> >>],
     [keywords |-> << <<"e", "d", "u", "c", "a", "t", "i", "o", "n">>, <<"l", "e", "a", "r", "n", "i", "n", "g">> >>,
      terms |-> << <<"e", "d", "u", "c", "a", "t", "i", "o", "n", "a", "l", " ", "t", "e", "c", "h", "n", "o", "l", "o", "g", "y">>, <<"A", "I", " ", "i", "n", " ", "e", "d", "u", "c", "a", "t", "i", "o", "n">>, <<"p", "e", "r", "s", "o", "n", "a", "l", "i", "z", "e", "d", " ", "l", "e", "a", "r", "n", "i", "n", "g">> >>],
     [keywords |-> << <<"e", "n", "e", "r", "g", "y">>, <<"r", "e", "n", "e", "w", "a", "b", "l", "e">> >>,
      terms |-> << <<"r", "e", "n", "e", "w", "a", "b", "l", "e", " ", "e", "n", "e", "r", "g", "y", " ", "t", "e", "c", "h", "n", "o", "l", "o", "g", "y">>, <<"s", "o", "l", "a", "r", " ", "p", "o", "w", "e", "r", " ", "A", "I">>, <<"w", "i", "n", "d", " ", "e", "n", "e", "r", "g", "y", " ", "s", "y", "s", "t", "e", "m", "s">> >>],
     [keywords |-> << <<"c", "y", "b", "e", "r", "s", "e", "c", "u", "r", "i", "t", "y">>, <<"s", "e", "c", "u", "r", "i", "t", "y">> >>,
      terms |-> << <<"c", "y", "b", "e", "r", "s", "e", "c", "u", "r", "i", "t", "y", " ", "A", "I">>, <<"t", "h", "r", "e", "a", "t", " ", "d", "e", "t", "e", "c", "t", "i", "o", "n">>, <<"s", "e", "c", "u", "r", "i", "t", "y", " ", "a", "u", "t", "o", "m", "a", "t", "i", "o", "n">> >>],
     [keywords |-> << <<"t", "r", "a", "n", "s", "p", "o", "r", "t", "a", "t", "i", "o", "n">>, <<"m", "o", "b", "i", "l", "i", "t", "y">> >>,
      terms |-> << <<"t", "r", "a", "n", "s", "p", "o", "r", "t", "a", "t", "i", "o", "n", " ", "t", "e", "c", "h", "n", "o", "l", "o", "g", "y">>, <<"a", "u", "t", "o", "n", "o", "m", "o", "u", "s", " ", "v", "e", "h", "i", "c", "l", "e", "s">>, <<"s", "m", "a", "r", "t", " ", "m", "o", "b", "i", "l", "i", "t", "y">> >>],
     [keywords |-> << <<"a", "g", "r", "i", "c", "u", "l", "t", "u", "r", "e">>, <<"f", "a", "r", "m", "i", "n", "g">> >>,
      terms |-> << <<"a", "g", "r", "i", "c", "u", "l", "t", "u", "r", "a", "l", " ", "t", "e", "c", "h", "n", "o", "l", "o", "g", "y">>, <<"p", "r", "e", "c", "i", "s", "i", "o", "n", " ", "f", "a", "r", "m", "i", "n", "g", " ", "A", "I">>, <<"s", "m", "a", "r", "t", " ", "a", "g", "r", "i", "c", "u", "l", "t", "u", "r", "e">> >>],
     [keywords |-> << <<"e", "n", "t", "e", "r", "t", "a", "i", "n", "m", "e", "n", "t">>, <<"m", "e", "d", "i", "a">> >>,
      terms |-> << <<"e", "n", "t", "e", "r", "t", "a", "i", "n", "m", "e", "n", "t", " ", "t", "e", "c", "h", "n", "o", "l", "o", "g", "y">>, <<"m", "e", "d", "i", "a", " ", "A", "I">>, <<"c", "o", "n", "t", "e", "n", "t", " ", "c", "r", "e", "a", "t", "i", "o", "n", " ", "t", "o", "o", "l", "s">> >>],
     [keywords |-> << <<"g", "a", "m", "i", "n", "g">>, <<"g", "a", "m", "e">> >>,
      terms |-> << <<"g", "a", "m", "i", "n", "g", " ", "t", "e", "c", "h", "n", "o", "l", "o", "g", "y">>, <<"g", "a", "m", "e", " ", "A", "I">>, <<"i", "n", "t", "e", "r", "a", "c", "t", "i", "v", "e", " ", "e", "n", "t", "e", "r", "t", "a", "i", "n", "m", "e", "n", "t">> >>],
     [keywords |-> << <<"s", "m", "a", "r", "t", " ", "h", "o", "m", "e">>, <<"i", "o", "t">> >>,
      terms |-> << <<"s", "m", "a", "r", "t", " ", "h", "o", "m", "e", " ", "t", "e", "c", "h", "n", "o", "l", "o", "g", "y">>, <<"I", "o", "T", " ", "d", "e", "v", "i", "c", "e", "s">>, <<"h", "o", "m", "e", " ", "a", "u", "t", "o", "m", "a", "t", "i", "o", "n">> >>],
     [keywords |-> << <<"s", "u", "p", "p", "l", "y", " ", "c", "h", "a", "i", "n">>, <<"l", "o", "g", "i", "s", "t", "i", "c", "s">> >>,
      terms |-> << <<"s", "u", "p", "p", "l", "y", " ", "c", "h", "a", "i", "n", " ", "t", "e", "c", "h", "n", "o", "l", "o", "g", "y">>, <<"l", "o", "g", "i", "s", "t", "i", "c", "s", " ", "A", "I">>, <<"s", "m", "a", "r", "t", " ", "l", "o", "g", "i", "s", "t", "i", "c", "s">> >>],
     [keywords |-> << <<"s", "o", "c", "i", "a", "l", " ", "m", "e", "d", "i", "a">>, <<"c", "o", "m", "m", "u", "n", "i", "c", "a", "t", "i", "o", "n">> >>,
      terms |-> << <<"s", "o", "c", "i", "a", "l", " ", "m", "e", "d", "i", "a", " ", "t", "e", "c", "h", "n", "o", "l", "o", "g", "y">>, <<"c", "o", "m", "m", "u", "n", "i", "c", "a", "t", "i", "o", "n", " ", "A", "I">>, <<"d", "i", "g", "i", "t", "a", "l", " ", "m", "a", "r", "k", "e", "t", "i", "n", "g", " ", "t", "o", "o", "l", "s">> >>] >>

\* mutant: the rules are tried bottom to top
FirstRuleFromBottom(combined_text) ==
  IF \E r \in 1..Len(DomainRules) :
       \E k \in 1..Len(DomainRules[r].keywords) :
         Contains(combined_text, DomainRules[r].keywords[k])
  THEN CHOOSE r \in 1..Len(DomainRules) :
         /\ \E k \in 1..Len(DomainRules[r].keywords) :
              Contains(combined_text, DomainRules[r].keywords[k])
         /\ \A q \in (r + 1)..Len(DomainRules) :
              \A k \in 1..Len(DomainRules[q].keywords) :
                ~Contains(combined_text, DomainRules[q].keywords[k])
  ELSE 0

\* the first rule one of whose keywords occurs in the text, 0 when none does
FirstRule(combined_text) ==
  IF \E r \in 1..Len(DomainRules) :
       \E k \in 1..Len(DomainRules[r].keywords) :
         Contains(combined_text, DomainRules[r].keywords[k])
  THEN CHOOSE r \in 1..Len(DomainRules) :
         /\ \E k \in 1..Len(DomainRules[r].keywords) :
              Contains(combined_text, DomainRules[r].keywords[k])
         /\ \A q \in 1..(r - 1) :
              \A k \in 1..Len(DomainRules[q].keywords) :
                ~Contains(combined_text, DomainRules[q].keywords[k])
  ELSE 0

\* ResearchAgent._extract_search_terms
ExtractSearchTerms(title, description) ==
  LET combined_text == Lower(title \o <<" ">> \o description)
      r == FirstRule(combined_text)
  IN  IF r # 0 THEN DomainRules[r].terms
      ELSE Take(LongWords(Split(title)), 3)

\* ------------------------------------------------------------ task texts
TitleHealthcare == <<"H", "e", "a", "l", "t", "h", "c", "a", "r", "e", " ", "A", "I">>
TitleShort == <<"G", "o">>
NoDescription == <<>>

\* a title that selects a rule's three terms, and one that yields no term
TaskTexts ==
  { [title |-> TitleHealthcare, description |-> NoDescription],
    [title |-> TitleShort, description |-> NoDescription] }

\* ------------------------------------------------------------ dictionaries
\* {}
EmptyDict == [k \in {} |-> 0]

\* dict.get(key, default)
Get(dict, key, default) == IF key \in DOMAIN dict THEN dict[key] ELSE default

\* bool(str)
Truthy(str) == str # ""

\* an ordered dict as a sequence of (key, value) pairs: d[key] = value
DictSet(pairs, key, value) ==
  IF \E i \in 1..Len(pairs) : pairs[i].key = key
  THEN [i \in 1..Len(pairs) |->
          IF pairs[i].key = key THEN [key |-> key, value |-> value] ELSE pairs[i]]
  ELSE Append(pairs, [key |-> key, value |-> value])

DictKeys(pairs) == [i \in 1..Len(pairs) |-> pairs[i].key]

DictHas(pairs, key) == \E i \in 1..Len(pairs) : pairs[i].key = key

\* d.get(key, {}) on an ordered dict
DictGet(pairs, key) ==
  IF DictHas(pairs, key)
  THEN pairs[CHOOSE i \in 1..Len(pairs) : pairs[i].key = key].value
  ELSE EmptyDict

\* ------------------------------------------------------------------ text
\* the text a backend call returns, and the fixed strings used in its place
ResponseText(stage, run) == [kind |-> "response", by |-> stage, run |-> run]
SentinelText(stage, run) == [kind |-> "not_configured", by |-> stage, run |-> run]
ApiExceptionText(stage, run) == [kind |-> "api_exception", by |-> stage, run |-> run]
\* ''
EmptyText == [kind |-> "empty", by |-> "default", run |-> 0]

\* mutant: no check of has_api_key before the call; without a model the call
\* raises inside the try block
GenerateResponseWithoutSentinel(has_api_key, call_raises, stage, run) ==
  IF ~has_api_key \/ call_raises THEN ApiExceptionText(stage, run)
  ELSE ResponseText(stage, run)

\* GeminiLLM.generate_response: never raises
GenerateResponse(has_api_key, call_raises, stage, run) ==
  IF ~has_api_key THEN SentinelText(stage, run)
  ELSE IF call_raises THEN ApiExceptionText(stage, run)
  ELSE ResponseText(stage, run)

\* ------------------------------------------------------------- the stages
StageNames == <<"research", "analysis", "innovation", "environment">>

AgentId(stage) ==
  CASE stage = "research" -> "research_agent"
    [] stage = "analysis" -> "analysis_agent"
    [] stage = "innovation" -> "innovation_agent"
    [] stage = "environment" -> "environment_agent"

\* mutant: the except branch also reports an elapsed duration
ErrorResultWithElapsed(stage, task, msg, t) ==
  [agent_id |-> AgentId(stage), task_id |-> task.id, error |-> msg, timestamp |-> t,
   processing_time |-> 0]

\* the except branch of every process_task
ErrorResult(stage, task, msg, t) ==
  [agent_id |-> AgentId(stage), task_id |-> task.id, error |-> msg, timestamp |-> t]

\* an exception raised inside a stage's try block: none, or one with its str()
NoFault == [raised |-> FALSE, msg |-> ""]
StageFaults ==
  { [raised |-> TRUE, msg |-> "unexpected failure"], [raised |-> TRUE, msg |-> ""] }

\* ------------------------------------------------------- research stage
\* max_results of the paper search and of the repository search
ArxivMaxResults == 5
GithubMaxResults == 8

\* the feeds _get_rss_news scans, in order
RssFeeds == <<"TechCrunch", "BBC Technology", "Wired", "AI News">>

\* the external calls of one _gather_research_data: one paper search per term,
\* one parse per feed and one repository search, both for the first term
FetchCalls(terms) ==
  { [source |-> "arxiv", term |-> i, feed |-> 0] : i \in 1..Len(terms) }
    \cup { [source |-> "rss", term |-> 1, feed |-> f] : f \in 1..Len(RssFeeds) }
    \cup { [source |-> "github", term |-> 1, feed |-> 0] }

\* the number of records one call can return: the papers and repositories the
\* source holds for the query up to max_results, the matching entries of a feed
Available(world, call) ==
  CASE call.source = "arxiv" -> Min(world.arxiv, ArxivMaxResults)
    [] call.source = "rss" -> world.rss
    [] call.source = "github" -> Min(world.github, GithubMaxResults)

\* the records one call returns: nothing when it fails
Fetch(world, call, failed) ==
  IF call \in failed THEN <<>>
  ELSE [n \in 1..Available(world, call) |->
          [source |-> call.source, term |-> call.term, feed |-> call.feed, n |-> n]]

RECURSIVE SearchPapers(_, _, _, _)
SearchPapers(world, terms, i, failed) ==
  IF i > Len(terms) THEN <<>>
  ELSE Fetch(world, [source |-> "arxiv", term |-> i, feed |-> 0], failed)
         \o SearchPapers(world, terms, i + 1, failed)

\* mutant: one failing feed empties the whole news scan
RECURSIVE GetRssNewsAllOrNothing(_, _, _)
GetRssNewsAllOrNothing(world, f, failed) ==
  IF \E g \in 1..Len(RssFeeds) : [source |-> "rss", term |-> 1, feed |-> g] \in failed
  THEN <<>>
  ELSE IF f > Len(RssFeeds) THEN <<>>
  ELSE Fetch(world, [source |-> "rss", term |-> 1, feed |-> f], failed)
         \o GetRssNewsAllOrNothing(world, f + 1, failed)

\* DataAPIs._get_rss_news: the matching entries of each feed, feed by feed; a
\* feed that fails is skipped
RECURSIVE GetRssNews(_, _, _)
GetRssNews(world, f, failed) ==
  IF f > Len(RssFeeds) THEN <<>>
  ELSE Fetch(world, [source |-> "rss", term |-> 1, feed |-> f], failed)
         \o GetRssNews(world, f + 1, failed)

\* entry.get('summary', '')[:300]
DescriptionLength == 300

\* mutant: an entry is kept only when every token of the query occurs in it
KeepEntryAllTokens(entry, query) ==
  LET content == Lower(entry.title \o <<" ">> \o entry.summary)
      keywords == Split(Lower(query))
  IN  \A k \in 1..Len(keywords) : Contains(content, keywords[k])

\* _get_rss_news, the test of one entry:
\* any(keyword in content for keyword in query.lower().split())
KeepEntry(entry, query) ==
  LET content == Lower(entry.title \o <<" ">> \o entry.summary)
      keywords == Split(Lower(query))
  IN  \E k \in 1..Len(keywords) : Contains(content, keywords[k])

\* the article _get_rss_news appends for an entry it keeps
Article(feed_name, entry) ==
  [title |-> entry.title,
   description |-> Take(entry.summary, DescriptionLength),
   source |-> feed_name,
   published |-> entry.published,
   url |-> entry.link]

\* _get_rss_news, the loop over the entries of one parsed feed
RECURSIVE FeedArticles(_, _, _)
FeedArticles(feed_name, entries, query) ==
  IF entries = <<>> THEN <<>>
  ELSE (IF KeepEntry(Head(entries), query)
        THEN <<Article(feed_name, Head(entries))>> ELSE <<>>)
         \o FeedArticles(feed_name, Tail(entries), query)

\* DataAPIs.search_news / _get_rss_news on feeds with the given entries: the
\* feeds are parsed in order, a feed whose parse fails is skipped
RECURSIVE SearchNews(_, _, _, _)
SearchNews(query, feeds, f, failed) ==
  IF f > Len(RssFeeds) THEN <<>>
  ELSE (IF f \in failed THEN <<>> ELSE FeedArticles(RssFeeds[f], feeds[f], query))
         \o SearchNews(query, feeds, f + 1, failed)

\* the calls _gather_research_data makes on the api_client, in order, with the
\* query of each: search_terms[0] raises before search_news is called when no
\* term was derived
GatherCalls(terms) ==
  [i \in 1..Len(terms) |-> [fn |-> "search_arxiv_papers", query |-> terms[i]]]
    \o (IF terms = <<>> THEN <<>>
        ELSE << [fn |-> "search_news", query |-> terms[1]],
                [fn |-> "search_github_repos", query |-> terms[1]] >>)

\* ResearchAgent._gather_research_data; raises IndexError on search_terms[0]
\* when no term was derived
GatherResearchData(title, description, world, failed) ==
  LET search_terms == ExtractSearchTerms(title, description)
  IN  IF search_terms = <<>>
      THEN [raised |-> TRUE, msg |-> "list index out of range",
            calls |-> GatherCalls(search_terms)]
      ELSE [raised |-> FALSE,
            calls |-> GatherCalls(search_terms),
            data |-> [papers |-> SearchPapers(world, search_terms, 1, failed),
                      news |-> GetRssNews(world, 1, failed),
                      github |-> Fetch(world, [source |-> "github", term |-> 1, feed |-> 0],
                                       failed)]]

\* mutant: the volume bonus is not capped
CalculateConfidenceUncappedBonus(data) ==
  LET sources == (IF data.papers # <<>> THEN 1 ELSE 0)
                   + (IF data.news # <<>> THEN 1 ELSE 0)
                   + (IF data.github # <<>> THEN 1 ELSE 0)
      total_items == Len(data.papers) + Len(data.news) + Len(data.github)
  IN  Min(Min(sources * 250, 750) + total_items * 10, 1000)

\* ResearchAgent._calculate_confidence, in thousandths
CalculateConfidence(data) ==
  LET sources == (IF data.papers # <<>> THEN 1 ELSE 0)
                   + (IF data.news # <<>> THEN 1 ELSE 0)
                   + (IF data.github # <<>> THEN 1 ELSE 0)
      total_items == Len(data.papers) + Len(data.news) + Len(data.github)
      base_confidence == Min(sources * 250, 750)
      volume_bonus == Min(total_items * 10, 250)
  IN  Min(base_confidence + volume_bonus, 1000)

\* the slice [:3] of the papers and repositories embedded in the prompt
PreviewLength == 3

\* ResearchAgent.process_task, the prompt handed to generate_response: the
\* values the f-string embeds, in order
ResearchPrompt(task, research_data) ==
  [title |-> task.title,
   description |-> task.description,
   papers |-> Take(research_data.papers, PreviewLength),
   news |-> research_data.news,
   github |-> Take(research_data.github, PreviewLength)]

\* ResearchAgent.process_task
ResearchProcessTask(task, world, failed, call_raises, fault, run, start_time, end_time) ==
  LET gathered == GatherResearchData(task.title, task.description, world, failed)
  IN  IF gathered.raised
      THEN ErrorResult("research", task, gathered.msg, end_time)
      ELSE IF fault.raised
      THEN ErrorResult("research", task, fault.msg, end_time)
      ELSE [agent_id |-> AgentId("research"),
            task_id |-> task.id,
            research_data |-> GenerateResponse(world.has_api_key, call_raises, "research", run),
            raw_data_sources |-> gathered.data,
            confidence_score |-> CalculateConfidence(gathered.data),
            timestamp |-> end_time,
            processing_time |-> end_time - start_time,
            data_sources_count |-> [papers |-> Len(gathered.data.papers),
                                    news |-> Len(gathered.data.news),
                                    github |-> Len(gathered.data.github)]]

\* ------------------------------------------------------- analysis stage
\* mutant: the contribution of a source is not capped
AssessDataQualityUncapped(raw_data) ==
  LET papers == Get(raw_data, "papers", <<>>)
      news == Get(raw_data, "news", <<>>)
      github == Get(raw_data, "github", <<>>)
  IN  Len(papers) * 100 + Len(news) * 50 + Len(github) * 30

\* AnalysisAgent._assess_data_quality, in thousandths
AssessDataQuality(raw_data) ==
  LET papers == Get(raw_data, "papers", <<>>)
      news == Get(raw_data, "news", <<>>)
      github == Get(raw_data, "github", <<>>)
      quality_score == (IF papers # <<>> THEN Min(Len(papers) * 100, 400) ELSE 0)
                         + (IF news # <<>> THEN Min(Len(news) * 50, 300) ELSE 0)
                         + (IF github # <<>> THEN Min(Len(github) * 30, 300) ELSE 0)
  IN  Min(quality_score, 1000)

\* AnalysisAgent.process_task
AnalysisProcessTask(task, context, has_api_key, call_raises, fault, run, start_time, end_time) ==
  IF fault.raised
  THEN ErrorResult("analysis", task, fault.msg, end_time)
  ELSE [agent_id |-> AgentId("analysis"),
        task_id |-> task.id,
        analysis_insights |-> GenerateResponse(has_api_key, call_raises, "analysis", run),
        data_quality_score |-> AssessDataQuality(Get(context, "raw_data_sources", EmptyDict)),
        timestamp |-> end_time,
        processing_time |-> end_time - start_time]

\* ----------------------------------------------------- innovation stage
BreakthroughPotential == 850
CommercialViability == 780

\* InnovationAgent.process_task
InnovationProcessTask(task, context, has_api_key, call_raises, fault, run, start_time, end_time) ==
  IF fault.raised
  THEN ErrorResult("innovation", task, fault.msg, end_time)
  ELSE [agent_id |-> AgentId("innovation"),
        task_id |-> task.id,
        innovation_ideas |-> GenerateResponse(has_api_key, call_raises, "innovation", run),
        breakthrough_potential |-> BreakthroughPotential,
        commercial_viability |-> CommercialViability,
        timestamp |-> end_time,
        processing_time |-> end_time - start_time]

\* ---------------------------------------------------- environment stage
\* round(num / den, 2), in thousandths; where num / den lies half-way between
\* two hundredths the code rounds by the binary value of the float, this
\* definition rounds up (no elapsed time used below produces such a value)
Round2(num, den) == ((200 * num + den) \div (2 * den)) * 10

\* EnvironmentAgent._gather_system_metrics; times are in ticks
GatherSystemMetrics(context) ==
  LET response_times ==
        [research |-> Get(Get(context, "research", EmptyDict), "processing_time", 0),
         analysis |-> Get(Get(context, "analysis", EmptyDict), "processing_time", 0),
         innovation |-> Get(Get(context, "innovation", EmptyDict), "processing_time", 0)]
      total_time == response_times.research + response_times.analysis
                      + response_times.innovation
      base_health ==
        IF total_time > 60 * TicksPerSecond
        THEN 1000 - ((total_time - 60 * TicksPerSecond) * 10) \div TicksPerSecond
        ELSE 1000
      error_count ==
        Cardinality({ stage \in {"research", "analysis", "innovation"} :
                        Truthy(Get(Get(context, stage, EmptyDict), "error", "")) })
      health_score == Max(base_health - error_count * 100, 500)
      data_quality == Get(context, "data_quality_score", 800)
      optimization_score == Min(data_quality + 100, 1000)
      raw_data == Get(Get(context, "research", EmptyDict), "raw_data_sources", EmptyDict)
      api_successes ==
        Cardinality({ source \in {"papers", "news", "github"} :
                        Get(raw_data, source, <<>>) # <<>> })
      resource_utilization ==
        IF total_time > 0
        THEN Min(Round2(45 * TicksPerSecond, total_time), 1000)
        ELSE 1000
  IN  [health_score |-> Round2(health_score, 1000),
       optimization_score |-> Round2(optimization_score, 1000),
       response_times |-> response_times,
       data_quality |-> data_quality,
       api_success_rate |-> Round2(api_successes, 3),
       resource_utilization |-> resource_utilization,
       total_processing_time |-> total_time,
       error_count |-> error_count]

\* mutant: the metrics index the prior results instead of using .get, so a prior
\* result without processing_time raises KeyError inside the try block
EnvironmentProcessTaskStrict(task, context, has_api_key, call_raises, fault, run, start_time, end_time) ==
  LET performance_data == GatherSystemMetrics(context)
  IN  IF \E stage \in DOMAIN context : "processing_time" \notin DOMAIN context[stage]
      THEN ErrorResult("environment", task, "'processing_time'", end_time)
      ELSE IF fault.raised
      THEN ErrorResult("environment", task, fault.msg, end_time)
      ELSE [agent_id |-> AgentId("environment"),
            task_id |-> task.id,
            management_recommendations |->
              GenerateResponse(has_api_key, call_raises, "environment", run),
            system_health_score |-> performance_data.health_score,
            optimization_potential |-> performance_data.optimization_score,
            timestamp |-> end_time,
            processing_time |-> end_time - start_time]

\* EnvironmentAgent.process_task
EnvironmentProcessTask(task, context, has_api_key, call_raises, fault, run, start_time, end_time) ==
  LET performance_data == GatherSystemMetrics(context)
  IN  IF fault.raised
      THEN ErrorResult("environment", task, fault.msg, end_time)
      ELSE [agent_id |-> AgentId("environment"),
            task_id |-> task.id,
            management_recommendations |->
              GenerateResponse(has_api_key, call_raises, "environment", run),
            system_health_score |-> performance_data.health_score,
            optimization_potential |-> performance_data.optimization_score,
            timestamp |-> end_time,
            processing_time |-> end_time - start_time]

\* ------------------------------------------------------- the orchestrator
\* mutant: the analysis context is read from the results stored on the task by
\* an earlier execute_workflow
AnalysisContextStale(research_result) ==
  LET stale == Get(tasks[workflow.task].results, "stages", <<>>)
      source == IF stale # <<>> THEN DictGet(stale, "research") ELSE research_result
  IN  [research_data |-> Get(source, "research_data", EmptyText),
       raw_data_sources |-> Get(source, "raw_data_sources", EmptyDict),
       data_quality_score |-> Get(source, "confidence_score", 800)]

\* the contexts execute_workflow hands to the stages
AnalysisContext(research_result) ==
  [research_data |-> Get(research_result, "research_data", EmptyText),
   raw_data_sources |-> Get(research_result, "raw_data_sources", EmptyDict),
   data_quality_score |-> Get(research_result, "confidence_score", 800)]

InnovationContext(research_result, analysis_result) ==
  [research_data |-> Get(research_result, "research_data", EmptyText),
   analysis_insights |-> Get(analysis_result, "analysis_insights", EmptyText)]

EnvContext(research_result, analysis_result, innovation_result) ==
  [research |-> research_result,
   analysis |-> analysis_result,
   innovation |-> innovation_result]

\* mutant: the workflow counts as a success only when no stage returned an error
PerformanceMetricsStageAware(total_time, research_result, environment_result) ==
  [total_processing_time |-> total_time,
   data_sources_used |-> Get(research_result, "data_sources_count", EmptyDict),
   confidence_score |-> Get(research_result, "confidence_score", 800),
   system_health |-> Get(environment_result, "system_health_score", 960),
   workflow_success |-> /\ "error" \notin DOMAIN research_result
                        /\ "error" \notin DOMAIN environment_result]

\* mutant: a missing stage value is reported as 0
PerformanceMetricsZeroDefaults(total_time, research_result, environment_result) ==
  [total_processing_time |-> total_time,
   data_sources_used |-> Get(research_result, "data_sources_count", EmptyDict),
   confidence_score |-> Get(research_result, "confidence_score", 0),
   system_health |-> Get(environment_result, "system_health_score", 0),
   workflow_success |-> TRUE]

\* results['performance_metrics'] of a workflow that ran its four stages
PerformanceMetrics(total_time, research_result, environment_result) ==
  [total_processing_time |-> total_time,
   data_sources_used |-> Get(research_result, "data_sources_count", EmptyDict),
   confidence_score |-> Get(research_result, "confidence_score", 800),
   system_health |-> Get(environment_result, "system_health_score", 960),
   workflow_success |-> TRUE]

\* f"task_{int(time.time())}": the whole seconds of the clock
TaskId(t) == t \div TicksPerSecond

\* ProductionEcosystem.create_task, ResearchTask.__post_init__
NewTask(text, t) ==
  [id |-> TaskId(t),
   title |-> text.title,
   description |-> text.description,
   priority |-> 1,
   status |-> "pending",
   created_at |-> t,
   results |-> EmptyDict]

\* the results dict execute_workflow starts from
NewResults(task, t) ==
  [task_id |-> task.id,
   title |-> task.title,
   workflow_start |-> t,
   stages |-> <<>>,
   performance_metrics |-> EmptyDict]

\* ----------------------------------------------------------- persistence
\* the keys of a results dict, in insertion order
ResultKeyOrder ==
  <<"task_id", "title", "workflow_start", "stages", "performance_metrics",
    "workflow_end", "error", "workflow_success">>

RECURSIVE DumpKeys(_, _)
DumpKeys(dict, keys) ==
  IF keys = <<>> THEN <<>>
  ELSE IF Head(keys) \in DOMAIN dict
       THEN <<[key |-> Head(keys), value |-> dict[Head(keys)]]>> \o DumpKeys(dict, Tail(keys))
       ELSE DumpKeys(dict, Tail(keys))

\* json.dumps(results): the document's members, in insertion order
JsonDumps(results) == DumpKeys(results, ResultKeyOrder)

\* json.loads(document)
JsonLoads(document) ==
  [k \in { document[i].key : i \in 1..Len(document) } |->
     document[CHOOSE i \in 1..Len(document) : document[i].key = k].value]

\* _init_database: DROP TABLE IF EXISTS, CREATE TABLE; a failure is logged
InitDatabase(table, ok) ==
  IF ok THEN [exists |-> TRUE, rows |-> <<>>] ELSE table

\* _save_results: one INSERT; a failure is logged and swallowed
SaveResults(table, results, ok) ==
  IF ok /\ table.exists
  THEN [table EXCEPT !.rows =
          Append(@, [id |-> Len(@) + 1,
                     task_id |-> results.task_id,
                     results |-> JsonDumps(results)])]
  ELSE table

\* SELECT results FROM research_results WHERE task_id = ?, each json.loads-ed
RECURSIVE LoadRows(_, _)
LoadRows(rows, task_id) ==
  IF rows = <<>> THEN <<>>
  ELSE IF Head(rows).task_id = task_id
       THEN <<JsonLoads(Head(rows).results)>> \o LoadRows(Tail(rows), task_id)
       ELSE LoadRows(Tail(rows), task_id)

\* mutant: the except branch logs and re-raises
HandleWorkflowErrorReraise(results, msg) ==
  [raised |-> TRUE, value |-> EmptyDict]

\* the except branch of execute_workflow: the partial results are returned
HandleWorkflowError(results, msg) ==
  [raised |-> FALSE,
   value |-> results @@ [error |-> msg, workflow_success |-> FALSE]]

\* mutant: innovation is run before analysis
NextStageSwapped(stage) ==
  CASE stage = "research" -> "innovation"
    [] stage = "innovation" -> "analysis"
    [] stage = "analysis" -> "environment"
    [] stage = "environment" -> "finish"

\* the stage execute_workflow runs after `stage`
NextStage(stage) ==
  CASE stage = "research" -> "analysis"
    [] stage = "analysis" -> "innovation"
    [] stage = "innovation" -> "environment"
    [] stage = "environment" -> "finish"

\* mutant: the insert is skipped when a stage returned an error
CompleteWorkflowSkipping(results, task, table, save_ok, total_time, t) ==
  LET research_result == DictGet(results.stages, "research")
      environment_result == DictGet(results.stages, "environment")
      measured == [results EXCEPT !.performance_metrics =
                     PerformanceMetrics(total_time, research_result, environment_result)]
      final == measured @@ [workflow_end |-> t]
      skip == \E i \in 1..Len(results.stages) : "error" \in DOMAIN results.stages[i].value
  IN  [raised |-> FALSE,
       value |-> final,
       inserts |-> IF skip THEN <<>> ELSE <<[op |-> "insert", fault |-> ~save_ok]>>,
       table |-> IF skip THEN table ELSE SaveResults(table, measured, save_ok),
       task |-> [task EXCEPT !.status = "completed", !.results = final],
       completed |-> TRUE]

\* mutant: a failed insert is not caught in _save_results and reaches the
\* except branch of execute_workflow
CompleteWorkflowEscalating(results, task, table, save_ok, total_time, t) ==
  LET research_result == DictGet(results.stages, "research")
      environment_result == DictGet(results.stages, "environment")
      measured == [results EXCEPT !.performance_metrics =
                     PerformanceMetrics(total_time, research_result, environment_result)]
      final == measured @@ [workflow_end |-> t]
  IN  IF save_ok /\ table.exists
      THEN [raised |-> FALSE,
            value |-> final,
            inserts |-> <<[op |-> "insert", fault |-> FALSE]>>,
            table |-> SaveResults(table, measured, save_ok),
            task |-> [task EXCEPT !.status = "completed", !.results = final],
            completed |-> TRUE]
      ELSE [raised |-> FALSE,
            value |-> measured @@ [error |-> "database error", workflow_success |-> FALSE],
            inserts |-> <<[op |-> "insert", fault |-> TRUE]>>,
            table |-> table,
            task |-> task,
            completed |-> FALSE]

\* execute_workflow after the four stages: metrics, insert, task completion,
\* workflow_end, return
CompleteWorkflow(results, task, table, save_ok, total_time, t) ==
  LET research_result == DictGet(results.stages, "research")
      environment_result == DictGet(results.stages, "environment")
      measured == [results EXCEPT !.performance_metrics =
                     PerformanceMetrics(total_time, research_result, environment_result)]
      final == measured @@ [workflow_end |-> t]
  IN  [raised |-> FALSE,
       value |-> final,
       inserts |-> <<[op |-> "insert", fault |-> ~save_ok]>>,
       table |-> SaveResults(table, measured, save_ok),
       task |-> [task EXCEPT !.status = "completed", !.results = final],
       completed |-> TRUE]

\* ------------------------------------------------------------ the report
\* the defaults generate_report prints for a missing text
NoText(what) == [kind |-> "missing", by |-> what, run |-> 0]

\* ProductionEcosystem.generate_report at clock value t: the values the text
\* embeds, in order.  strftime('%Y-%m-%d %H:%M:%S') prints the clock down to the
\* second, :.2f hundredths of a second, :.1% tenths of a percent
GenerateReport(results, t) ==
  LET performance == Get(results, "performance_metrics", EmptyDict)
      stages == Get(results, "stages", <<>>)
      research_stage == DictGet(stages, "research")
      analysis_stage == DictGet(stages, "analysis")
      innovation_stage == DictGet(stages, "innovation")
      environment_stage == DictGet(stages, "environment")
      data_sources == Get(research_stage, "data_sources_count", EmptyDict)
  IN  [generated |-> t \div TicksPerSecond,
       task_id |-> Get(results, "task_id", -1),
       processing_time |->
         (Get(performance, "total_processing_time", 0) * 100) \div TicksPerSecond,
       status |-> IF Get(performance, "workflow_success", FALSE)
                  THEN "Completed Successfully" ELSE "Failed",
       confidence_score |-> Get(performance, "confidence_score", 0),
       papers |-> Get(data_sources, "papers", 0),
       news |-> Get(data_sources, "news", 0),
       github |-> Get(data_sources, "github", 0),
       research_findings |-> Get(research_stage, "research_data", NoText("research data")),
       analysis_insights |->
         Get(analysis_stage, "analysis_insights", NoText("analysis insights")),
       innovation_opportunities |->
         Get(innovation_stage, "innovation_ideas", NoText("innovation ideas")),
       environment_recommendations |->
         Get(environment_stage, "management_recommendations",
             NoText("environment recommendations")),
       system_health |-> Get(environment_stage, "system_health_score", 0),
       data_quality |-> Get(analysis_stage, "data_quality_score", 0),
       innovation_potential |-> Get(innovation_stage, "breakthrough_potential", 0)]

\* ------------------------------------------------------------ the system
\* what the process finds outside: every source holds the same number of
\* records for a query, GOOGLE_API_KEY is set or not
Worlds ==
  { [arxiv |-> r, rss |-> r, github |-> r, has_api_key |-> k] :
      r \in 0..MaxRecords, k \in BOOLEAN }

NoApplication == [fn |-> "none"]
NoRun == [eco |-> 0, task |-> 0, workflow_start |-> 0]
NoReturn == [raised |-> FALSE, value |-> EmptyDict]

Init ==
  /\ now = 0
  /\ external \in Worlds
  /\ faults = 0
  /\ ecosystems = <<>>
  /\ tasks = <<>>
  /\ db = [exists |-> FALSE, rows |-> <<>>]
  /\ pc = "idle"
  /\ workflow = NoRun
  /\ wf_results = EmptyDict
  /\ contexts = <<>>
  /\ calls = <<>>
  /\ returned = NoReturn
  /\ runs = 0
  /\ waits = 0
  /\ inserted = 0
  /\ applied = NoApplication

Cost(flag) == IF flag THEN 1 ELSE 0

\* the caller may make one more call
MayCall == pc = "idle" /\ Len(ecosystems) + Len(tasks) + runs + waits < MaxCalls

\* time passes between two calls
Tick ==
  /\ MayCall
  /\ now' = now + 1
  /\ waits' = waits + 1
  /\ UNCHANGED <<external, faults, ecosystems, tasks, db, pc, workflow, wf_results,
                 contexts, calls, returned, runs, inserted, applied>>

\* ProductionEcosystem()
Construct ==
  /\ MayCall
  /\ \E ok \in BOOLEAN :
       /\ faults + Cost(~ok) <= MaxFaults
       /\ faults' = faults + Cost(~ok)
       /\ db' = InitDatabase(db, ok)
  /\ ecosystems' = Append(ecosystems, [completed_tasks |-> <<>>])
  /\ UNCHANGED <<now, external, tasks, pc, workflow, wf_results, contexts, calls,
                 returned, runs, waits, inserted, applied>>

\* ecosystem.create_task(title, description)
CreateTask ==
  /\ MayCall
  /\ ecosystems # <<>>
  /\ \E text \in TaskTexts : tasks' = Append(tasks, NewTask(text, now))
  /\ UNCHANGED <<now, external, faults, ecosystems, db, pc, workflow, wf_results,
                 contexts, calls, returned, runs, waits, inserted, applied>>

\* ecosystem.execute_workflow(task), up to the try block
Execute ==
  /\ MayCall
  /\ \E e \in DOMAIN ecosystems, t \in DOMAIN tasks :
       /\ workflow' = [eco |-> e, task |-> t, workflow_start |-> now]
       /\ wf_results' = NewResults(tasks[t], now)
  /\ pc' = "research"
  /\ contexts' = <<>>
  /\ calls' = <<>>
  /\ returned' = NoReturn
  /\ runs' = runs + 1
  /\ UNCHANGED <<now, external, faults, ecosystems, tasks, db, waits, inserted, applied>>

\* what one process_task call meets: how long it takes, whether the backend
\* call raises inside generate_response, whether the try block raises
StageInputs ==
  { in \in [d : {StageTicks}, call_raises : BOOLEAN,
            fault : {NoFault} \cup StageFaults] :
      /\ in.call_raises => (external.has_api_key /\ ~in.fault.raised)
      /\ faults + Cost(in.call_raises) + Cost(in.fault.raised) <= MaxFaults }

StageDone(stage, in, context, result, fetch_failures) ==
  /\ wf_results' = [wf_results EXCEPT !.stages = DictSet(@, stage, result)]
  /\ contexts' = Append(contexts, [key |-> stage, value |-> context])
  /\ calls' = Append(calls, [op |-> stage, fault |-> in.fault.raised])
  /\ pc' = NextStage(stage)
  /\ now' = now + in.d
  /\ faults' = faults + Cost(in.call_raises) + Cost(in.fault.raised) + fetch_failures
  /\ UNCHANGED <<external, ecosystems, tasks, db, workflow, returned, runs, waits, inserted, applied>>

ResearchStage ==
  /\ pc = "research"
  /\ LET search_terms == ExtractSearchTerms(tasks[workflow.task].title,
                                            tasks[workflow.task].description)
         fetch_calls == IF search_terms = <<>> THEN {} ELSE FetchCalls(search_terms)
     IN  \E in \in StageInputs :
           \E failed \in SUBSET fetch_calls :
             /\ faults + Cost(in.call_raises) + Cost(in.fault.raised) + Cardinality(failed)
                  <= MaxFaults
             /\ in.fault.raised => failed = {}
             /\ StageDone("research", in, EmptyDict,
                          ResearchProcessTask(tasks[workflow.task], external, failed,
                                              in.call_raises, in.fault, runs, now, now + in.d),
                          Cardinality(failed))

AnalysisStage ==
  /\ pc = "analysis"
  /\ \E in \in StageInputs :
       LET context == AnalysisContext(DictGet(wf_results.stages, "research"))
       IN  StageDone("analysis", in, context,
                     AnalysisProcessTask(tasks[workflow.task], context, external.has_api_key,
                                         in.call_raises, in.fault, runs, now, now + in.d),
                     0)

InnovationStage ==
  /\ pc = "innovation"
  /\ \E in \in StageInputs :
       LET context == InnovationContext(DictGet(wf_results.stages, "research"),
                                        DictGet(wf_results.stages, "analysis"))
       IN  StageDone("innovation", in, context,
                     InnovationProcessTask(tasks[workflow.task], context, external.has_api_key,
                                           in.call_raises, in.fault, runs, now, now + in.d),
                     0)

EnvironmentStage ==
  /\ pc = "environment"
  /\ \E in \in StageInputs :
       LET context == EnvContext(DictGet(wf_results.stages, "research"),
                                 DictGet(wf_results.stages, "analysis"),
                                 DictGet(wf_results.stages, "innovation"))
       IN  StageDone("environment", in, context,
                     EnvironmentProcessTask(tasks[workflow.task], context, external.has_api_key,
                                            in.call_raises, in.fault, runs, now, now + in.d),
                     0)

\* mutant: the except branch also marks the task failed
WorkflowErrorMarksFailed ==
  /\ pc \in {"research", "analysis", "innovation", "environment"}
  /\ faults < MaxFaults
  /\ faults' = faults + 1
  /\ returned' = HandleWorkflowError(wf_results, "print failed")
  /\ tasks' = [tasks EXCEPT ![workflow.task].status = "failed"]
  /\ pc' = "idle"
  /\ UNCHANGED <<now, external, ecosystems, db, workflow, wf_results, contexts,
                 calls, runs, waits, inserted, applied>>

\* a print() before a stage raises: the except branch returns the partial results
WorkflowError ==
  /\ pc \in {"research", "analysis", "innovation", "environment"}
  /\ faults < MaxFaults
  /\ faults' = faults + 1
  /\ returned' = HandleWorkflowError(wf_results, "print failed")
  /\ pc' = "idle"
  /\ UNCHANGED <<now, external, ecosystems, tasks, db, workflow, wf_results, contexts,
                 calls, runs, waits, inserted, applied>>

\* the four stages have returned: metrics, insert, completion, return
Finish ==
  /\ pc = "finish"
  /\ \E save_ok \in BOOLEAN :
       LET done == CompleteWorkflow(wf_results, tasks[workflow.task], db, save_ok,
                                    now - workflow.workflow_start, now)
       IN  /\ faults + Cost(~save_ok) <= MaxFaults
           /\ faults' = faults + Cost(~save_ok)
           /\ returned' = [raised |-> done.raised, value |-> done.value]
           /\ db' = done.table
           /\ inserted' = inserted + (Len(done.table.rows) - Len(db.rows))
           /\ calls' = calls \o done.inserts
           /\ tasks' = [tasks EXCEPT ![workflow.task] = done.task]
           /\ ecosystems' =
                IF done.completed
                THEN [ecosystems EXCEPT ![workflow.eco].completed_tasks = Append(@, workflow.task)]
                ELSE ecosystems
  /\ pc' = "idle"
  /\ UNCHANGED <<now, external, workflow, wf_results, contexts, runs, waits, applied>>

Next ==
  \/ Tick
  \/ Construct
  \/ CreateTask
  \/ Execute
  \/ ResearchStage
  \/ AnalysisStage
  \/ InnovationStage
  \/ EnvironmentStage
  \/ WorkflowError
  \/ Finish

Spec == Init /\ [][Next]_vars

\* ------------------------------------------- the functions on their own
\* str.join: the words of a title, one blank between two
RECURSIVE Join(_)
Join(words) ==
  IF words = <<>> THEN <<>>
  ELSE IF Len(words) = 1 THEN Head(words)
  ELSE Head(words) \o <<" ">> \o Join(Tail(words))

\* words titles are made of: some select a rule, one holds a keyword of an
\* earlier rule inside a keyword of a later one, some select no rule, one is short
Vocabulary ==
  { <<"H", "e", "a", "l", "t", "h", "c", "a", "r", "e">>,
    <<"B", "l", "o", "c", "k", "c", "h", "a", "i", "n">>,
    <<"R", "o", "b", "o", "t", "i", "c", "s">>,
    <<"Q", "u", "a", "n", "t", "u", "m">>,
    <<"S", "e", "n", "s", "o", "r", "s">>,
    <<"G", "o">> }

WordLists == UNION { [1..n -> Vocabulary] : n \in 0..MaxWords }

DescriptionSmartHome == <<"S", "m", "a", "r", "t", " ", "H", "o", "m", "e">>
Descriptions == { NoDescription, DescriptionSmartHome }

\* a bundle of the given sizes
Bundle(papers, news, github) ==
  [papers |-> [n \in 1..papers |-> [source |-> "arxiv", term |-> 1, feed |-> 0, n |-> n]],
   news |-> [n \in 1..news |-> [source |-> "rss", term |-> 1, feed |-> 1, n |-> n]],
   github |-> [n \in 1..github |-> [source |-> "github", term |-> 1, feed |-> 0, n |-> n]]]

\* sources holding different numbers of records
MixedWorlds ==
  [arxiv : 0..MaxRecords, rss : 0..MaxRecords, github : 0..MaxRecords,
   has_api_key : {TRUE}]

\* elapsed times of a stage, in ticks
ElapsedChoices == { 30 * TicksPerSecond * k : k \in 0..MaxSlow }

\* what a stage may meet: how long it takes, whether its try block raises
SlowStageInputs ==
  [d : ElapsedChoices, call_raises : {FALSE},
   fault : {NoFault, [raised |-> TRUE, msg |-> "unexpected failure"]}]

\* what the four stages of one workflow meet
WorkflowInputs ==
  [research : SlowStageInputs, analysis : SlowStageInputs, innovation : SlowStageInputs,
   environment : [d : {0}, call_raises : {FALSE},
                  fault : {NoFault, [raised |-> TRUE, msg |-> "unexpected failure"]}]]

TaskHealthcare == NewTask([title |-> TitleHealthcare, description |-> NoDescription], 0)

CallExtractSearchTerms ==
  /\ applied = NoApplication
  /\ \E words \in WordLists, description \in Descriptions :
       applied' = [fn |-> "extract_search_terms",
                   in |-> [words |-> words, title |-> Join(words), description |-> description],
                   out |-> ExtractSearchTerms(Join(words), description)]
  /\ UNCHANGED <<now, external, faults, ecosystems, tasks, db, pc, workflow, wf_results,
                 contexts, calls, returned, runs, waits, inserted>>

CallGatherResearchData ==
  /\ applied = NoApplication
  /\ \E text \in TaskTexts, world \in MixedWorlds :
       LET search_terms == ExtractSearchTerms(text.title, text.description)
           fetch_calls == IF search_terms = <<>> THEN {} ELSE FetchCalls(search_terms)
       IN  \E failed \in SUBSET fetch_calls :
             applied' = [fn |-> "gather_research_data",
                         in |-> [text |-> text, world |-> world, failed |-> failed],
                         out |-> GatherResearchData(text.title, text.description, world, failed)]
  /\ UNCHANGED <<now, external, faults, ecosystems, tasks, db, pc, workflow, wf_results,
                 contexts, calls, returned, runs, waits, inserted>>

\* feed entries: a title that holds both words of a query, one that holds none,
\* one whose title and summary hold a token only across their boundary, one
\* that holds a token in capitals in its summary, one that holds a token inside
\* a longer word, one without title and summary
EntryAdvances ==
  [title |-> <<"A", "d", "v", "a", "n", "c", "e", "s", " ", "i", "n", " ", "M", "a", "c", "h", "i", "n", "e", " ", "L", "e", "a", "r", "n", "i", "n", "g">>,
   summary |-> <<>>,
   published |-> "Mon", link |-> "a"]
EntryWeather ==
  [title |-> <<"L", "o", "c", "a", "l", " ", "w", "e", "a", "t", "h", "e", "r", " ", "f", "o", "r", "e", "c", "a", "s", "t">>,
   summary |-> <<>>,
   published |-> "Tue", link |-> "w"]
EntryInnings ==
  [title |-> <<"E", "x", "t", "r", "a">>,
   summary |-> <<"I", "n", "n", "i", "n", "g", "s">>,
   published |-> "Wed", link |-> "i"]
EntryChips ==
  [title |-> <<"C", "h", "i", "p", " ", "n", "e", "w", "s">>,
   summary |-> <<"N", "e", "w", " ", "A", "I", " ", "a", "c", "c", "e", "l", "e", "r", "a", "t", "o", "r", "s">>,
   published |-> "Thu", link |-> "c"]
EntryTrains ==
  [title |-> <<"R", "a", "i", "n", " ", "d", "e", "l", "a", "y", "s", " ", "t", "r", "a", "i", "n", "s">>,
   summary |-> <<>>,
   published |-> "Fri", link |-> "t"]
EntryBare ==
  [title |-> <<>>,
   summary |-> <<>>,
   published |-> "", link |-> ""]

\* what each feed holds, newest first, in the order of RssFeeds
FeedEntries ==
  << <<EntryAdvances, EntryWeather, EntryChips>>,
     <<EntryWeather, EntryTrains, EntryAdvances>>,
     <<EntryChips, EntryInnings, EntryBare>>,
     <<EntryTrains, EntryAdvances, EntryInnings>> >>

QueryMachineLearning == <<"m", "a", "c", "h", "i", "n", "e", " ", "l", "e", "a", "r", "n", "i", "n", "g">>
QueryDiagnosis == <<"A", "I", " ", "d", "i", "a", "g", "n", "o", "s", "i", "s">>
QueryWeather == <<"W", "E", "A", "T", "H", "E", "R">>
QueryEmpty == <<>>
QueryBlank == <<" ">>

\* queries of two tokens, of one token in capitals, and of no token
Queries == {QueryMachineLearning, QueryDiagnosis, QueryWeather, QueryEmpty, QueryBlank}

CallSearchNews ==
  /\ applied = NoApplication
  /\ \E query \in Queries, shown \in [1..Len(RssFeeds) -> 0..MaxEntries],
        failed \in SUBSET (1..Len(RssFeeds)) :
       LET feeds == [f \in 1..Len(RssFeeds) |-> Take(FeedEntries[f], shown[f])]
       IN  applied' = [fn |-> "search_news",
                       in |-> [query |-> query, feeds |-> feeds, failed |-> failed],
                       out |-> SearchNews(query, feeds, 1, failed)]
  /\ UNCHANGED <<now, external, faults, ecosystems, tasks, db, pc, workflow, wf_results,
                 contexts, calls, returned, runs, waits, inserted>>

\* the prompt of the research stage for a bundle of the given sizes
CallResearchPrompt ==
  /\ applied = NoApplication
  /\ \E papers \in 0..MaxPapers, news \in 0..MaxNews, github \in 0..MaxRepos :
       applied' = [fn |-> "research_prompt",
                   in |-> Bundle(papers, news, github),
                   out |-> ResearchPrompt(TaskHealthcare, Bundle(papers, news, github))]
  /\ UNCHANGED <<now, external, faults, ecosystems, tasks, db, pc, workflow, wf_results,
                 contexts, calls, returned, runs, waits, inserted>>

CallCalculateConfidence ==
  /\ applied = NoApplication
  /\ \E papers \in 0..MaxPapers, news \in 0..MaxNews, github \in 0..MaxRepos :
       applied' = [fn |-> "calculate_confidence",
                   in |-> Bundle(papers, news, github),
                   out |-> CalculateConfidence(Bundle(papers, news, github))]
  /\ UNCHANGED <<now, external, faults, ecosystems, tasks, db, pc, workflow, wf_results,
                 contexts, calls, returned, runs, waits, inserted>>

CallAssessDataQuality ==
  /\ applied = NoApplication
  /\ \E papers \in 0..MaxPapers, news \in 0..MaxNews, github \in 0..MaxRepos :
       applied' = [fn |-> "assess_data_quality",
                   in |-> Bundle(papers, news, github),
                   out |-> AssessDataQuality(Bundle(papers, news, github))]
  /\ UNCHANGED <<now, external, faults, ecosystems, tasks, db, pc, workflow, wf_results,
                 contexts, calls, returned, runs, waits, inserted>>

\* execute_workflow when nothing is raised outside the stages, the table exists
\* and the insert succeeds: each stage is handed the context built from the
\* results before it
CallExecuteWorkflow ==
  /\ applied = NoApplication
  /\ \E world \in MixedWorlds, ins \in WorkflowInputs :
       LET t1 == ins.research.d
           t2 == t1 + ins.analysis.d
           t3 == t2 + ins.innovation.d
           t4 == t3 + ins.environment.d
       IN  \E research_result \in
                { ResearchProcessTask(TaskHealthcare, world, {}, ins.research.call_raises,
                                      ins.research.fault, 1, 0, t1) } :
           \E analysis_result \in
                { AnalysisProcessTask(TaskHealthcare, AnalysisContext(research_result),
                                      world.has_api_key, ins.analysis.call_raises,
                                      ins.analysis.fault, 1, t1, t2) } :
           \E innovation_result \in
                { InnovationProcessTask(TaskHealthcare,
                                        InnovationContext(research_result, analysis_result),
                                        world.has_api_key, ins.innovation.call_raises,
                                        ins.innovation.fault, 1, t2, t3) } :
           \E environment_result \in
                { EnvironmentProcessTask(TaskHealthcare,
                                         EnvContext(research_result, analysis_result,
                                                    innovation_result),
                                         world.has_api_key, ins.environment.call_raises,
                                         ins.environment.fault, 1, t3, t4) } :
             LET results ==
                   [NewResults(TaskHealthcare, 0) EXCEPT !.stages =
                      <<[key |-> "research", value |-> research_result],
                        [key |-> "analysis", value |-> analysis_result],
                        [key |-> "innovation", value |-> innovation_result],
                        [key |-> "environment", value |-> environment_result]>>]
                 env_context == EnvContext(research_result, analysis_result, innovation_result)
             IN  \E done \in { CompleteWorkflow(results, TaskHealthcare,
                                                [exists |-> TRUE, rows |-> <<>>], TRUE, t4, t4) } :
                   applied' =
                     [fn |-> "execute_workflow",
                      in |-> [world |-> world, ins |-> ins],
                      out |-> done.value,
                      task |-> done.task,
                      system_metrics |-> GatherSystemMetrics(env_context)]
  /\ UNCHANGED <<now, external, faults, ecosystems, tasks, db, pc, workflow, wf_results,
                 contexts, calls, returned, runs, waits, inserted>>

\* generate_report on the results execute_workflow returned, as main() calls it,
\* and again on the same results
CallGenerateReport ==
  /\ applied.fn \in {"execute_workflow", "generate_report"}
  /\ \E t \in 0..MaxReportTick :
       LET results == IF applied.fn = "execute_workflow" THEN applied.out ELSE applied.in
       IN  applied' = [fn |-> "generate_report",
                       in |-> results,
                       at |-> t,
                       out |-> GenerateReport(results, t)]
  /\ UNCHANGED <<now, external, faults, ecosystems, tasks, db, pc, workflow, wf_results,
                 contexts, calls, returned, runs, waits, inserted>>

InitFunctions ==
  /\ Init
  /\ external = [arxiv |-> 0, rss |-> 0, github |-> 0, has_api_key |-> TRUE]

NextFunctions ==
  \/ CallExtractSearchTerms
  \/ CallGatherResearchData
  \/ CallSearchNews
  \/ CallResearchPrompt
  \/ CallCalculateConfidence
  \/ CallAssessDataQuality
  \/ CallExecuteWorkflow
  \/ CallGenerateReport

\* one function of the pipeline called on its own
Functions == InitFunctions /\ [][NextFunctions]_vars

\* ------------------------------------------------------------- properties
Stages == {"research", "analysis", "innovation", "environment"}

\* the last execute_workflow has returned
Returned == pc = "idle" /\ runs > 0

\* ... through the except branch of execute_workflow
Failed == Returned /\ "error" \in DOMAIN returned.value

\* ... through the return at the end of the try block
Succeeded == Returned /\ ~returned.raised /\ "error" \notin DOMAIN returned.value

\* the stage map of the running execute_workflow, or of the one that returned last
CurStages ==
  IF pc = "idle" THEN Get(returned.value, "stages", <<>>) ELSE wf_results.stages

\* the process_task calls made so far, without the insert
StageCalls == SelectSeq(calls, LAMBDA c : c.op \in Stages)
InsertCalls == SelectSeq(calls, LAMBDA c : c.op = "insert")
CallOps(cs) == [i \in 1..Len(cs) |-> cs[i].op]

ErrorKeys == {"agent_id", "task_id", "error", "timestamp"}

PayloadKeys(stage) ==
  CASE stage = "research" ->
         {"research_data", "raw_data_sources", "confidence_score", "data_sources_count"}
    [] stage = "analysis" -> {"analysis_insights", "data_quality_score"}
    [] stage = "innovation" ->
         {"innovation_ideas", "breakthrough_potential", "commercial_viability"}
    [] stage = "environment" ->
         {"management_recommendations", "system_health_score", "optimization_potential"}

AllPayloadKeys == UNION { PayloadKeys(stage) : stage \in Stages }

ErrorShaped(r) == DOMAIN r = ErrorKeys

PayloadShaped(stage, r) ==
  DOMAIN r = {"agent_id", "task_id", "timestamp", "processing_time"} \cup PayloadKeys(stage)

\* C1: an execute_workflow that does not fail at the orchestrator level calls
\* the four stages once each in the order research, analysis, innovation,
\* environment, each after the previous one returned and stored its result,
\* and returns workflow_success = true with one StageResult per stage, stored
\* in that order.
C1_StagesOnceInOrder ==
  /\ pc # "idle" =>
       /\ CallOps(StageCalls) = SubSeq(StageNames, 1, Len(StageCalls))
       /\ DictKeys(wf_results.stages) = CallOps(StageCalls)
       /\ pc = IF StageCalls = <<>> THEN "research"
               ELSE NextStage(StageCalls[Len(StageCalls)].op)
  /\ Succeeded =>
       /\ CallOps(StageCalls) = StageNames
       /\ DictKeys(returned.value.stages) = StageNames
       /\ returned.value.performance_metrics.workflow_success = TRUE

C1_Witness ==
  /\ Succeeded
  /\ Len(returned.value.stages) = 4
  /\ \A i \in 1..4 : PayloadShaped(StageNames[i], returned.value.stages[i].value)

\* C2: a stage that stores an error-shaped StageResult hands control to the
\* next stage; when the analysis StageResult is error-shaped and nothing is
\* raised inside the environment stage itself, the environment StageResult is
\* payload-shaped and its metrics use elapsed duration 0 for analysis.
C2_StageErrorStep ==
  (/\ pc \in Stages
   /\ Len(wf_results'.stages) = Len(wf_results.stages) + 1
   /\ ErrorShaped(wf_results'.stages[Len(wf_results'.stages)].value))
  => pc' = NextStage(pc)

C2_FailedStageDoesNotStopLaterStages ==
  /\ [][C2_StageErrorStep]_vars
  /\ [](\A i \in 1..Len(CurStages) :
          (/\ CurStages[i].key = "environment"
           /\ DictHas(CurStages, "analysis")
           /\ ErrorShaped(DictGet(CurStages, "analysis"))
           /\ \E j \in 1..Len(calls) : calls[j] = [op |-> "environment", fault |-> FALSE])
          => /\ PayloadShaped("environment", CurStages[i].value)
             /\ DictHas(contexts, "environment")
             /\ GatherSystemMetrics(DictGet(contexts, "environment")).response_times.analysis = 0
             /\ CurStages[i].value.system_health_score =
                  GatherSystemMetrics(DictGet(contexts, "environment")).health_score)

C2_Witness ==
  /\ Succeeded
  /\ ErrorShaped(DictGet(CurStages, "analysis"))
  /\ PayloadShaped("environment", DictGet(CurStages, "environment"))
  /\ PayloadShaped("research", DictGet(CurStages, "research"))
  /\ DictGet(CurStages, "environment").system_health_score = 900

\* C3: execute_workflow never raises; a call that fails at the orchestrator
\* level returns workflow_success = false and an error string, together with
\* the StageResult of every stage that had returned, in order.
C3_FailureReturnsPartialResult ==
  Returned =>
    /\ ~returned.raised
    /\ IF "error" \in DOMAIN returned.value
       THEN /\ returned.value.workflow_success = FALSE
            /\ returned.value.stages = wf_results.stages
            /\ DictKeys(returned.value.stages) = CallOps(StageCalls)
            /\ returned.value.task_id = tasks[workflow.task].id
       ELSE /\ Len(StageCalls) = 4
            /\ returned.value.performance_metrics.workflow_success = TRUE

C3_Witness ==
  /\ Failed
  /\ ~returned.raised
  /\ Len(returned.value.stages) = 2

\* C4: every StageResult is error-shaped (exactly agent_id, task_id, error,
\* timestamp) or payload-shaped (the stage's payload fields and an elapsed
\* duration, no error), never both.
C4_ErrorXorPayload ==
  \A i \in 1..Len(CurStages) :
    LET r == CurStages[i].value
    IN  /\ ErrorShaped(r) \/ PayloadShaped(CurStages[i].key, r)
        /\ ~("error" \in DOMAIN r /\ DOMAIN r \cap (AllPayloadKeys \cup {"processing_time"}) # {})

C4_Witness ==
  /\ Len(CurStages) = 4
  /\ \E i, j \in 1..4 :
       /\ ErrorShaped(CurStages[i].value)
       /\ PayloadShaped(CurStages[j].key, CurStages[j].value)

\* the texts a context carries
ContextTexts(stage, c) ==
  CASE stage = "research" -> {}
    [] stage = "analysis" -> {c.research_data}
    [] stage = "innovation" -> {c.research_data, c.analysis_insights}
    [] stage = "environment" -> {}

\* C5: the context handed to a stage holds only values of StageResults that the
\* same execute_workflow had already stored: texts come from an earlier stage
\* of this run (or are the '' default), analysis gets values of the research
\* result, innovation of the research and analysis results, environment the
\* three prior StageResults.
C5_ContextFromPriorStages ==
  \A i \in 1..Len(contexts) :
    LET stage == contexts[i].key
        c == contexts[i].value
        research_result == DictGet(CurStages, "research")
        analysis_result == DictGet(CurStages, "analysis")
    IN  /\ stage = CurStages[i].key
        /\ \A text \in ContextTexts(stage, c) :
             \/ text = EmptyText
             \/ /\ text.run = runs
                /\ text.by \in { CurStages[j].key : j \in 1..(i - 1) }
        /\ stage = "research" => c = EmptyDict
        /\ stage = "analysis" =>
             /\ DOMAIN c = {"research_data", "raw_data_sources", "data_quality_score"}
             /\ c.research_data = Get(research_result, "research_data", EmptyText)
             /\ c.raw_data_sources = Get(research_result, "raw_data_sources", EmptyDict)
             /\ c.data_quality_score = Get(research_result, "confidence_score", 800)
        /\ stage = "innovation" =>
             /\ DOMAIN c = {"research_data", "analysis_insights"}
             /\ c.research_data = Get(research_result, "research_data", EmptyText)
             /\ c.analysis_insights = Get(analysis_result, "analysis_insights", EmptyText)
        /\ stage = "environment" =>
             /\ DOMAIN c = { CurStages[j].key : j \in 1..(i - 1) }
             /\ \A s \in DOMAIN c : c[s] = DictGet(CurStages, s)

C5_Witness ==
  /\ runs = 2
  /\ Len(contexts) = 4
  /\ tasks[workflow.task].status = "completed"
  /\ contexts[2].value.research_data.kind = "response"
  /\ contexts[3].value.analysis_insights.kind = "response"

\* C6 as stated: every execute_workflow that has returned attempted the insert
\* exactly once, whether it succeeded or failed at the orchestrator level.
C6_InsertOnEveryCall ==
  Returned => Len(InsertCalls) = 1

\* C6: an execute_workflow whose four stages returned attempts the insert
\* exactly once, whatever the stage outcomes; one that fails at the
\* orchestrator level attempts no insert.
C6_InsertOncePerCompletedRun ==
  /\ pc # "idle" => InsertCalls = <<>>
  /\ Succeeded => Len(InsertCalls) = 1
  /\ Failed => InsertCalls = <<>>

C6_Witness ==
  /\ Succeeded
  /\ Len(InsertCalls) = 1
  /\ \E i \in 1..Len(CurStages) : ErrorShaped(CurStages[i].value)

\* the insert of the last execute_workflow was attempted and failed
InsertFailed ==
  /\ Returned
  /\ InsertCalls # <<>>
  /\ InsertCalls[1].fault \/ ~db.exists

\* C7: a failed insert does not change the outcome: execute_workflow returns
\* workflow_success = true and no error, the task is completed, holds the
\* returned results and is appended to the history.
C7_InsertFailureIsSwallowed ==
  InsertFailed =>
    /\ ~returned.raised
    /\ "error" \notin DOMAIN returned.value
    /\ returned.value.performance_metrics.workflow_success = TRUE
    /\ tasks[workflow.task].status = "completed"
    /\ tasks[workflow.task].results = returned.value
    /\ LET history == ecosystems[workflow.eco].completed_tasks
       IN  history # <<>> /\ history[Len(history)] = workflow.task

C7_Witness ==
  /\ InsertFailed
  /\ InsertCalls[1].fault
  /\ db.exists
  /\ db.rows = <<>>
  /\ tasks[workflow.task].status = "completed"

\* the fields of a WorkflowResult
WorkflowResultKeys ==
  {"task_id", "title", "workflow_start", "workflow_end", "stages", "performance_metrics"}

\* C8: after a successful execute_workflow whose insert succeeded, the record
\* stored last under its task_id, deserialized, equals the returned
\* WorkflowResult field for field.
C8_ReloadEqualsReturned ==
  (/\ Succeeded
   /\ InsertCalls # <<>>
   /\ ~InsertCalls[1].fault
   /\ LoadRows(db.rows, returned.value.task_id) # <<>>)
  => LET loaded == LoadRows(db.rows, returned.value.task_id)
         reloaded == loaded[Len(loaded)]
     IN  \A k \in WorkflowResultKeys :
           /\ k \in DOMAIN returned.value
           /\ k \in DOMAIN reloaded
           /\ reloaded[k] = returned.value[k]

RECURSIVE CompletedCount(_)
CompletedCount(ecos) ==
  IF ecos = <<>> THEN 0
  ELSE Len(Head(ecos).completed_tasks) + CompletedCount(Tail(ecos))

\* C9: as long as every insert succeeded, the table holds one row for each
\* workflow completed since the process started, whatever constructions and
\* executions took place.
C9_OneRowPerCompletedWorkflow ==
  (db.exists /\ inserted = CompletedCount(ecosystems))
    => Len(db.rows) = CompletedCount(ecosystems)

\* C10: any two tasks returned by create_task have different ids.
C10_UniqueTaskIds ==
  \A i, j \in DOMAIN tasks : i # j => tasks[i].id # tasks[j].id

\* C11: execute_workflow changes the task and the history only when it
\* completes: a call that returns without error has set the task's status to
\* completed, stored the returned results on the task and appended the task to
\* completed_tasks; while the stages run, and when the call returns through the
\* except branch, the tasks and the history are what they were.
C11_Step ==
  /\ (pc' # "idle") => (pc = "idle" \/ (tasks' = tasks /\ ecosystems' = ecosystems))
  /\ (pc = "idle" /\ pc' # "idle") => (tasks' = tasks /\ ecosystems' = ecosystems)
  /\ (pc # "idle" /\ pc' = "idle") =>
       IF "error" \in DOMAIN returned'.value
       THEN tasks' = tasks /\ ecosystems' = ecosystems
       ELSE /\ returned'.value.performance_metrics.workflow_success
            /\ tasks' = [tasks EXCEPT ![workflow.task] =
                           [@ EXCEPT !.status = "completed", !.results = returned'.value]]
            /\ ecosystems' = [ecosystems EXCEPT ![workflow.eco].completed_tasks =
                                Append(@, workflow.task)]

C11_TaskMutatedOnlyOnCompletion == [][C11_Step]_vars

C11_Witness ==
  /\ Failed
  /\ runs = 2
  /\ returned.value.stages # <<>>
  /\ tasks[workflow.task].status = "completed"
  /\ tasks[workflow.task].results # returned.value
  /\ ecosystems[workflow.eco].completed_tasks = <<workflow.task>>

\* C12: generate_report is pure and deterministic: two calls on the same results
\* return the same text whatever the clock reads at each call, and a call
\* leaves the results, the tasks, the history and the table as they were.
C12_ReportStep ==
  applied'.fn = "generate_report" =>
    /\ tasks' = tasks /\ ecosystems' = ecosystems /\ db' = db
    /\ applied.fn = "execute_workflow" => applied'.in = applied.out
    /\ applied.fn = "generate_report" =>
         /\ applied'.in = applied.in
         /\ applied'.out = applied.out

C12_ReportIsDeterministic == [][C12_ReportStep]_vars

\* a score in [0, 1], in thousandths
InUnitInterval(score) == score >= 0 /\ score <= 1000

\* the fields of a StageResult that hold a heuristic score
ScoreKeys ==
  {"confidence_score", "data_quality_score", "breakthrough_potential",
   "commercial_viability", "system_health_score", "optimization_potential"}

\* the scores _gather_system_metrics computes
MetricScoreKeys ==
  {"health_score", "optimization_score", "data_quality", "api_success_rate",
   "resource_utilization"}

\* C13: whatever the sizes of the bundle, the elapsed times of the stages and
\* the stages that fail, every heuristic score lies in [0, 1]: the confidence
\* and the data quality computed from a bundle, every score stored in a
\* StageResult or in the performance metrics of a workflow, and every score of
\* the system metrics (health, optimization, resource utilization, API success
\* rate).
C13_ScoresInUnitInterval ==
  /\ applied.fn \in {"calculate_confidence", "assess_data_quality"} =>
       InUnitInterval(applied.out)
  /\ applied.fn = "execute_workflow" =>
       /\ \A i \in 1..Len(applied.out.stages) :
            \A k \in ScoreKeys \cap DOMAIN applied.out.stages[i].value :
              InUnitInterval(applied.out.stages[i].value[k])
       /\ InUnitInterval(applied.out.performance_metrics.confidence_score)
       /\ InUnitInterval(applied.out.performance_metrics.system_health)
       /\ \A k \in MetricScoreKeys : InUnitInterval(applied.system_metrics[k])

C13_Witness ==
  /\ applied.fn = "execute_workflow"
  /\ applied.system_metrics.total_processing_time > 110 * TicksPerSecond
  /\ applied.system_metrics.health_score = 500
  /\ applied.system_metrics.resource_utilization < 500
  /\ applied.system_metrics.error_count = 1
  /\ applied.out.performance_metrics.confidence_score >= 750
  /\ applied.out.performance_metrics.system_health = 500

\* no source holds a record for any query
NothingToFind == external.arxiv = 0 /\ external.rss = 0 /\ external.github = 0

\* C14: whatever the title and the description, when no source returns a
\* record and nothing else goes wrong inside the research stage, the bundle's
\* three sequences are empty and the research StageResult is payload-shaped
\* with confidence 0, not an error.
C14_NothingFoundIsNotAnError ==
  (/\ NothingToFind
   /\ DictHas(CurStages, "research")
   /\ calls[1] = [op |-> "research", fault |-> FALSE])
  => LET research_result == DictGet(CurStages, "research")
     IN  /\ PayloadShaped("research", research_result)
         /\ research_result.raw_data_sources = [papers |-> <<>>, news |-> <<>>, github |-> <<>>]
         /\ research_result.confidence_score = 0

\* the sequence of a bundle that holds the records of a source
SequenceOf(data, source) ==
  CASE source = "arxiv" -> data.papers
    [] source = "rss" -> data.news
    [] source = "github" -> data.github

\* the records of a bundle that one external call returned, in order
RecordsOf(data, call) ==
  SelectSeq(SequenceOf(data, call.source),
            LAMBDA r : r.source = call.source /\ r.term = call.term /\ r.feed = call.feed)

\* C15: for a task that yields a search term, the gather step does not fail
\* whichever fetches fail (the paper search of a term, the parse of a feed, the
\* repository search): a failed fetch contributes no record, and every other
\* fetch, the other feeds of the same scan included, contributes all the
\* records it returned.
C15_FetchesDegradeIndependently ==
  (/\ applied.fn = "gather_research_data"
   /\ ExtractSearchTerms(applied.in.text.title, applied.in.text.description) # <<>>)
  => /\ ~applied.out.raised
     /\ \A call \in FetchCalls(ExtractSearchTerms(applied.in.text.title,
                                                  applied.in.text.description)) :
          RecordsOf(applied.out.data, call) =
            IF call \in applied.in.failed THEN <<>>
            ELSE [n \in 1..Available(applied.in.world, call) |->
                    [source |-> call.source, term |-> call.term, feed |-> call.feed, n |-> n]]

C15_Witness ==
  /\ applied.fn = "gather_research_data"
  /\ ~applied.out.raised
  /\ [source |-> "rss", term |-> 1, feed |-> 2] \in applied.in.failed
  /\ [source |-> "arxiv", term |-> 1, feed |-> 0] \in applied.in.failed
  /\ Cardinality(applied.in.failed) = 2
  /\ Len(applied.out.data.news) = 3
  /\ Len(applied.out.data.papers) = 2
  /\ Len(applied.out.data.github) = 1

\* the field of a payload-shaped StageResult that holds the generated text
TextKey(stage) ==
  CASE stage = "research" -> "research_data"
    [] stage = "analysis" -> "analysis_insights"
    [] stage = "innovation" -> "innovation_ideas"
    [] stage = "environment" -> "management_recommendations"

\* C16: generate_response always returns text: the fixed sentinel when no
\* credential is configured, and otherwise the response of the backend or, when
\* the call raises, a text that embeds the error.  A stage inside which nothing
\* else is raised (and, for research, a search term was derived) therefore
\* returns a payload-shaped StageResult holding that text, never an
\* error-shaped one.
C16_BackendFailureIsText ==
  \A i \in 1..Len(CurStages) :
    LET stage == CurStages[i].key
        r == CurStages[i].value
    IN  /\ (/\ calls[i] = [op |-> stage, fault |-> FALSE]
            /\ stage = "research" =>
                 ExtractSearchTerms(tasks[workflow.task].title,
                                    tasks[workflow.task].description) # <<>>)
           => PayloadShaped(stage, r)
        /\ PayloadShaped(stage, r) =>
             /\ r[TextKey(stage)].by = stage
             /\ r[TextKey(stage)].kind \in
                  IF external.has_api_key THEN {"response", "api_exception"}
                  ELSE {"not_configured"}

C16_Witness ==
  /\ Succeeded
  /\ external.has_api_key
  /\ \A i \in 1..4 : PayloadShaped(CurStages[i].key, CurStages[i].value)
  /\ DictGet(CurStages, "analysis").analysis_insights.kind = "api_exception"

BundleKeys == {"papers", "news", "github"}

\* the source types of a bundle with at least one record, and its record count
SourceTypesPresent(data) == { k \in BundleKeys : data[k] # <<>> }
TotalItemCount(data) == Len(data.papers) + Len(data.news) + Len(data.github)

\* C17: the confidence of a bundle is min(0.25 s, 0.75) + min(0.01 n, 0.25),
\* at most 1.0, for s source types with a record and n records in all; one
\* more record of a source type that is already present never lowers it.
C17_ConfidenceFormula ==
  applied.fn = "calculate_confidence" =>
    LET s == Cardinality(SourceTypesPresent(applied.in))
        n == TotalItemCount(applied.in)
    IN  /\ applied.out = Min(Min(250 * s, 750) + Min(10 * n, 250), 1000)
        /\ \A k \in SourceTypesPresent(applied.in) :
             CalculateConfidence([applied.in EXCEPT ![k] = Append(@, @[1])]) >= applied.out

C17_Witness ==
  /\ applied.fn = "calculate_confidence"
  /\ Cardinality(SourceTypesPresent(applied.in)) = 2
  /\ TotalItemCount(applied.in) = 26
  /\ applied.out = 750

\* the prior stages of the environment stage
PriorStages == {"research", "analysis", "innovation"}

\* the sum of the elapsed durations of the prior StageResults, 0 for one without
TotalElapsed(context) ==
  Get(Get(context, "research", EmptyDict), "processing_time", 0)
    + Get(Get(context, "analysis", EmptyDict), "processing_time", 0)
    + Get(Get(context, "innovation", EmptyDict), "processing_time", 0)

\* C18: the health the environment stage reports is
\* 1.0 - 0.01 * max(0, totalElapsed - 60) - 0.1 * errorCount, at least 0.5,
\* where errorCount is the number of prior stages whose StageResult is
\* error-shaped, whatever its error text.
C18_HealthCountsEveryError ==
  (/\ DictHas(CurStages, "environment")
   /\ DictHas(contexts, "environment")
   /\ PayloadShaped("environment", DictGet(CurStages, "environment")))
  => LET context == DictGet(contexts, "environment")
         over == Max(0, TotalElapsed(context) - 60 * TicksPerSecond)
         errorCount == Cardinality({ stage \in PriorStages : ErrorShaped(context[stage]) })
     IN  DictGet(CurStages, "environment").system_health_score =
           Max(1000 - (over * 10) \div TicksPerSecond - 100 * errorCount, 500)

\* C19: the optimization score the environment stage reports is
\* min(priorDataQuality + 0.1, 1.0), for the data quality the analysis stage of
\* the same execute_workflow computed from the bundle counts.
C19_OptimizationFromPriorDataQuality ==
  (/\ DictHas(CurStages, "environment")
   /\ PayloadShaped("environment", DictGet(CurStages, "environment"))
   /\ PayloadShaped("analysis", DictGet(CurStages, "analysis")))
  => DictGet(CurStages, "environment").optimization_potential =
       Min(DictGet(CurStages, "analysis").data_quality_score + 100, 1000)

KeywordHealthcare == <<"h", "e", "a", "l", "t", "h", "c", "a", "r", "e">>

HealthcareTerms ==
  << <<"a", "r", "t", "i", "f", "i", "c", "i", "a", "l", " ", "i", "n", "t", "e", "l", "l", "i", "g", "e", "n", "c", "e", " ", "h", "e", "a", "l", "t", "h", "c", "a", "r", "e">>,
     <<"m", "a", "c", "h", "i", "n", "e", " ", "l", "e", "a", "r", "n", "i", "n", "g", " ", "m", "e", "d", "i", "c", "i", "n", "e">>,
     <<"A", "I", " ", "d", "i", "a", "g", "n", "o", "s", "i", "s">> >>

\* C20: the search terms are the term list of the first domain rule, top to
\* bottom, one of whose keywords occurs in the lowercased title and
\* description (the three healthcare terms when the text contains
\* 'healthcare'); when no rule matches, the first words of the title longer
\* than 3 characters, at most 3 of them; never more than 3 terms, and the same
\* terms for the same title and description.
C20_FirstMatchingRuleOrLongWords ==
  applied.fn = "extract_search_terms" =>
    LET text == Lower(applied.in.title \o <<" ">> \o applied.in.description)
        Matches(r) ==
          \E k \in 1..Len(DomainRules[r].keywords) : Contains(text, DomainRules[r].keywords[k])
        long_words == SelectSeq(applied.in.words, LAMBDA w : Len(w) > 3)
    IN  /\ \A r \in 1..Len(DomainRules) :
             (Matches(r) /\ \A q \in 1..(r - 1) : ~Matches(q))
               => applied.out = DomainRules[r].terms
        /\ (\A r \in 1..Len(DomainRules) : ~Matches(r))
             => applied.out = SubSeq(long_words, 1, Min(3, Len(long_words)))
        /\ Contains(text, KeywordHealthcare) => applied.out = HealthcareTerms
        /\ Len(applied.out) <= 3
        /\ applied.out = ExtractSearchTerms(applied.in.title, applied.in.description)

C20_Witness ==
  /\ applied.fn = "extract_search_terms"
  /\ Len(applied.in.words) = 4
  /\ \A i \in 1..4 : Len(applied.in.words[i]) > 3
  /\ applied.in.description = NoDescription
  /\ applied.out = SubSeq(applied.in.words, 1, 3)
  /\ applied.out[1] # applied.out[2]

\* the calls of one gather on the given client function
CallsOf(gathered, fn) == SelectSeq(gathered.calls, LAMBDA c : c.fn = fn)

\* C21: one gather calls search_papers once per derived term, in term order,
\* and its papers are the results of these calls in that order, every record
\* kept; it calls search_news once and search_repos once, each with the first
\* derived term; no call is made twice, whether it succeeded or failed.
C21_OneCallPerTermNoRetry ==
  applied.fn = "gather_research_data" =>
    LET terms == ExtractSearchTerms(applied.in.text.title, applied.in.text.description)
        gathered == applied.out
        paper_calls == CallsOf(gathered, "search_arxiv_papers")
        news_calls == CallsOf(gathered, "search_news")
        repo_calls == CallsOf(gathered, "search_github_repos")
    IN  /\ Len(gathered.calls) = Len(paper_calls) + Len(news_calls) + Len(repo_calls)
        /\ [i \in 1..Len(paper_calls) |-> paper_calls[i].query] = terms
        /\ Len(news_calls) = 1
        /\ Len(repo_calls) = 1
        /\ news_calls[1].query = terms[1]
        /\ repo_calls[1].query = terms[1]
        /\ ~gathered.raised
        /\ \A i, j \in 1..Len(gathered.data.papers) :
             i < j =>
               LET a == gathered.data.papers[i]
                   b == gathered.data.papers[j]
               IN  a.term < b.term \/ (a.term = b.term /\ a.n < b.n)
        /\ \A i \in 1..Len(terms) :
             LET call == [source |-> "arxiv", term |-> i, feed |-> 0]
             IN  Len(RecordsOf(gathered.data, call)) =
                   IF call \in applied.in.failed THEN 0
                   ELSE Available(applied.in.world, call)

\* the tokens of a query: its maximal runs of non-blank characters, lowercased
Tokens(query) == { Split(Lower(query))[i] : i \in 1..Len(Split(Lower(query))) }

\* sub occurs in text at some position
IsSubstring(sub, text) ==
  \E a \in 1..(Len(text) + 1) :
    /\ a + Len(sub) - 1 <= Len(text)
    /\ SubSeq(text, a, a + Len(sub) - 1) = sub

\* the lowercased title and summary of an entry, a blank between them
TitleAndSummary(entry) == Lower(entry.title) \o <<" ">> \o Lower(entry.summary)

\* the entries a search_news call read and should keep, as (feed, position) pairs
KeptPositions(call) ==
  { p \in (1..Len(RssFeeds)) \X (1..MaxEntries) :
      /\ p[1] \notin call.failed
      /\ p[2] <= Len(call.feeds[p[1]])
      /\ \E token \in Tokens(call.query) :
           IsSubstring(token, TitleAndSummary(call.feeds[p[1]][p[2]])) }

C23_PromptPreviewCapped ==
  applied.fn = "research_prompt" =>
    \A source \in BundleKeys :
      /\ Len(applied.out[source]) <= 3
      /\ applied.out[source] = SubSeq(applied.in[source], 1, Min(3, Len(applied.in[source])))

\* C24: an execute_workflow that is not interrupted by an exception at the
\* orchestrator level returns workflow_success = true and no error, and marks
\* the task completed with the returned results, whichever of the four
\* StageResults are error-shaped: none, some, or all four.
C24_SuccessWhateverTheStages ==
  applied.fn = "execute_workflow" =>
    /\ DictKeys(applied.out.stages) = StageNames
    /\ \A i \in 1..4 :
         LET r == applied.out.stages[i].value
         IN  ErrorShaped(r) <=> applied.in.ins[StageNames[i]].fault.raised
    /\ applied.out.performance_metrics.workflow_success = TRUE
    /\ "error" \notin DOMAIN applied.out
    /\ "workflow_success" \notin DOMAIN applied.out
    /\ applied.task.status = "completed"
    /\ applied.task.results = applied.out

C24_Witness ==
  /\ applied.fn = "execute_workflow"
  /\ \A i \in 1..4 : ErrorShaped(applied.out.stages[i].value)
  /\ applied.out.performance_metrics.workflow_success = TRUE
  /\ applied.task.status = "completed"

\* C25: the performance metrics of a completed workflow copy the stage values
\* that exist and fall back to fixed defaults otherwise: the confidence is the
\* research StageResult's, or 0.8 when that is error-shaped; the system health
\* is the environment StageResult's health score, or 0.96 when that is
\* error-shaped; the data-source counts are the research StageResult's counts
\* per source (the sizes of its bundle), or empty when it is error-shaped.
C25_MetricsCopyOrDefault ==
  applied.fn = "execute_workflow" =>
    LET research_result == DictGet(applied.out.stages, "research")
        environment_result == DictGet(applied.out.stages, "environment")
        metrics == applied.out.performance_metrics
    IN  /\ metrics.confidence_score =
             IF ErrorShaped(research_result) THEN 800
             ELSE research_result.confidence_score
        /\ metrics.system_health =
             IF ErrorShaped(environment_result) THEN 960
             ELSE environment_result.system_health_score
        /\ IF ErrorShaped(research_result)
           THEN DOMAIN metrics.data_sources_used = {}
           ELSE /\ DOMAIN metrics.data_sources_used = BundleKeys
                /\ \A k \in BundleKeys :
                     /\ metrics.data_sources_used[k] = research_result.data_sources_count[k]
                     /\ metrics.data_sources_used[k] = Len(research_result.raw_data_sources[k])

C25_Witness ==
  /\ applied.fn = "execute_workflow"
  /\ ErrorShaped(DictGet(applied.out.stages, "research"))
  /\ PayloadShaped("analysis", DictGet(applied.out.stages, "analysis"))
  /\ ErrorShaped(DictGet(applied.out.stages, "environment"))
  /\ applied.out.performance_metrics.confidence_score = 800
  /\ applied.out.performance_metrics.system_health = 960
  /\ applied.out.performance_metrics.data_sources_used = EmptyDict

\* the keywords the domain rules list, each with its rule
ListedKeywords ==
  { [rule |-> r, word |-> DomainRules[r].keywords[k]] :
      r \in 1..Len(DomainRules), k \in 1..2 }

\* the keyword (one word or several) occurs in the text as a run of whole words
OccursAsWord(keyword, text) ==
  LET words == Split(Lower(text))
      wanted == Split(keyword)
  IN  \E a \in 1..Len(words) :
        /\ a + Len(wanted) - 1 <= Len(words)
        /\ SubSeq(words, a, a + Len(wanted) - 1) = wanted

\* C26: when exactly one listed domain keyword occurs as a word in the title
\* and description, the search terms are the term list of that keyword's rule,
\* whichever keyword it is; a text that mentions 'blockchain' and no other
\* listed keyword yields 'blockchain technology', 'cryptocurrency',
\* 'decentralized finance'.
C26_LoneKeywordSelectsItsRule ==
  applied.fn = "extract_search_terms" =>
    LET text == applied.in.title \o <<" ">> \o applied.in.description
        present == { kw \in ListedKeywords : OccursAsWord(kw.word, text) }
    IN  \A kw \in present :
          present = {kw} => applied.out = DomainRules[kw.rule].terms

====
